---- MODULE Spec2Model ----
(***************************************************************************)
(* The Product REST service: the route handlers of service/routes.py over  *)
(* the Product store.  One action per HTTP request; the state is the table *)
(* of products, the database id sequence, and the last request together    *)
(* with the response it got.                                               *)
(***************************************************************************)
EXTENDS Integers, Sequences, FiniteSets, TLC

(***************************************************************************)
(* Bounds of the model.                                                    *)
(***************************************************************************)
\* number of successful creates in one run (caps the id sequence)
MaxCreates == 2

(***************************************************************************)
(* HTTP status codes (service.common.status).                              *)
(***************************************************************************)
HTTP_200_OK == 200
HTTP_201_CREATED == 201
HTTP_204_NO_CONTENT == 204
HTTP_400_BAD_REQUEST == 400
HTTP_404_NOT_FOUND == 404
HTTP_415_UNSUPPORTED_MEDIA_TYPE == 415

(***************************************************************************)
(* JSON values of a request are tokens (strings).  Absent marks a missing  *)
(* header or a missing key of the body, NonString a JSON value that is not *)
(* a string where a string is expected.                                    *)
(***************************************************************************)
Absent == "<absent>"
NonString == "<number>"
JsonTrue == "true"
JsonFalse == "false"

\* the media type the POST and PUT handlers ask for
JSON_TYPE == "application/json"

\* Content-Type headers a client sends (Absent: no header at all)
ContentTypes == {Absent, JSON_TYPE, "text/plain", "application/json; charset=utf-8"}

(***************************************************************************)
(* Category: the closed enumeration.  A member is its position in          *)
(* CategoryNames; its name is the string at that position.                 *)
(***************************************************************************)
CategoryNames == <<"UNKNOWN", "CLOTHS", "FOOD", "HOUSEWARES", "AUTOMOTIVE", "TOOLS">>

Category == 1..Len(CategoryNames)

CategoryName(c) == CategoryNames[c]

IsCategoryName(s) == \E c \in Category : CategoryNames[c] = s

\* getattr(Category, s): the member whose name is s
CategoryOf(s) == CHOOSE c \in Category : CategoryNames[c] = s

UNKNOWN == CategoryOf("UNKNOWN")

(***************************************************************************)
(* Price: a decimal stored with two places, kept as a number of cents.     *)
(* PriceText holds the decimal strings requests carry and their value.     *)
(***************************************************************************)
PriceText == [s \in {"1.5", "1.50", "2.5", "2.50"} |->
                 CASE s = "1.5" -> 150
                   [] s = "1.50" -> 150
                   [] s = "2.5" -> 250
                   [] s = "2.50" -> 250]

IsDecimal(s) == s \in DOMAIN PriceText

\* Decimal(s), quantized to the column's two places
ParsePrice(s) == PriceText[s]

Digits2(n) == IF n < 10 THEN "0" \o ToString(n) ELSE ToString(n)

\* str(price) of a stored price
FormatPrice(cents) == ToString(cents \div 100) \o "." \o Digits2(cents % 100)

(***************************************************************************)
(* Request bodies.  A body is a JSON object with the keys of a serialized  *)
(* product; every key may be missing.  The bodies tried are BaseBody and   *)
(* every body that differs from it in one key.                             *)
(***************************************************************************)
Keys == {"id", "name", "description", "price", "available", "category"}

BodyValues == [id          : {Absent, "0", "2"},
               name        : {"Hat", "Pants", Absent, NonString},
               description : {"d1", "d2"},
               price       : {"1.5", "1.50", "2.5", "abc"},
               available   : {JsonTrue, JsonFalse},
               category    : {"FOOD", "TOOLS", "bogus", Absent}]

BaseBody == [id |-> Absent, name |-> "Hat", description |-> "d1",
             price |-> "1.5", available |-> JsonTrue, category |-> "FOOD"]

Bodies == {b \in BodyValues : Cardinality({k \in Keys : b[k] # BaseBody[k]}) <= 1}

\* the body of a request that carries none, or whose body is never read
NoBody == [id |-> Absent, name |-> Absent, description |-> Absent,
           price |-> Absent, available |-> Absent, category |-> Absent]

(***************************************************************************)
(* Query strings of GET /products: the parameters name, category and       *)
(* available; Absent when the parameter is not in the URL, "" when it is   *)
(* given with an empty value.                                              *)
(***************************************************************************)
QueryValues == [category  : {Absent, "", "Tools", "bogus"},
                name      : {Absent, "", "Hat"},
                available : {Absent, "", "false"}]

NoQuery == [category |-> Absent, name |-> Absent, available |-> Absent]

\* the truth value Python gives request.args.get(key): None and "" are false
Truthy(v) == v \notin {Absent, ""}

\* str.upper() on the category strings of the model
UpperText == [s \in {"Tools", "bogus", "unknown"} |->
                 CASE s = "Tools" -> "TOOLS"
                   [] s = "bogus" -> "BOGUS"
                   [] s = "unknown" -> "UNKNOWN"]

Upper(s) == UpperText[s]

(***************************************************************************)
(* Product entity and store (service.models).                              *)
(* A row: [id, name, description, price (cents), available, category].     *)
(* The table is the sequence of rows in insertion order.                   *)
(***************************************************************************)
\* the first id the database sequence hands out
FirstId == 1

\* Product(): a fresh entity, no id yet, before deserialize fills it
NoId == 0

NewProduct == [id |-> NoId, name |-> "", description |-> "", price |-> 0,
               available |-> FALSE, category |-> UNKNOWN]

Ids(st) == {st[i].id : i \in 1..Len(st)}

\* Product.find(id): the row with that id, or absent
Found(st, id) == id \in Ids(st)

Find(st, id) == st[CHOOSE i \in 1..Len(st) : st[i].id = id]

\* product.serialize()
Serialize(p) == [id |-> p.id, name |-> p.name, description |-> p.description,
                 price |-> FormatPrice(p.price),
                 available |-> IF p.available THEN JsonTrue ELSE JsonFalse,
                 category |-> CategoryName(p.category)]

\* product.deserialize(data) succeeds
Deserializes(data) ==
    /\ data.name \notin {Absent, NonString}
    /\ data.description # Absent
    /\ IsDecimal(data.price)
    /\ data.available \in {JsonTrue, JsonFalse}
    /\ data.category \notin {Absent, NonString}

\* product.deserialize(data): every field but the id is taken from data
Deserialize(p, data) ==
    [p EXCEPT !.name = data.name,
              !.description = data.description,
              !.price = ParsePrice(data.price),
              !.available = (data.available = JsonTrue),
              !.category = IF IsCategoryName(data.category)
                           THEN CategoryOf(data.category) ELSE UNKNOWN]

\* product.create(): insert the row, the database assigns the next id
Create(st, nid, p) == Append(st, [p EXCEPT !.id = nid])

\* product.update(): rewrite the row keyed by the entity's id
Update(st, p) == [i \in 1..Len(st) |-> IF st[i].id = p.id THEN p ELSE st[i]]

\* product.delete(): remove the row keyed by the entity's id
Delete(st, p) == SelectSeq(st, LAMBDA r : r.id # p.id)

\* Product.all(): every row
All(st) == st

\* Product.find_by_name(name): the rows with exactly that name
find_by_name(st, name) == SelectSeq(st, LAMBDA r : r.name = name)

\* Product.find_by_category(category): the rows of that member
find_by_category(st, category) == SelectSeq(st, LAMBDA r : r.category = category)

\* Product.find_by_availability(available): the rows whose flag is the
\* boolean the bool-like value stands for
find_by_availability(st, available) ==
    SelectSeq(st, LAMBDA r : r.available = (available = JsonTrue))

(***************************************************************************)
(* Responses.                                                              *)
(*   status: the HTTP status; kind: "object" (one serialized product),     *)
(*   "array", "empty" or "error"; items: the serialized products of the    *)
(*   body; location: the Location header; parsed: request.get_json() ran.  *)
(***************************************************************************)
Response(status, kind, items, location, parsed) ==
    [status |-> status, kind |-> kind, items |-> items,
     location |-> location, parsed |-> parsed]

\* abort(status, message)
Abort(status, parsed) == Response(status, "error", <<>>, Absent, parsed)

Result(st, nid, resp) == [store |-> st, nextId |-> nid, resp |-> resp]

(***************************************************************************)
(* Route handlers (service/routes.py).                                     *)
(***************************************************************************)
\* variant: a request without a Content-Type header is let through
check_content_type_missing_ok(header, content_type) ==
    IF header = Absent THEN TRUE
    ELSE header = content_type

\* check_content_type(content_type): TRUE when the handler goes on
check_content_type(header, content_type) ==
    IF header = Absent THEN FALSE
    ELSE header = content_type

\* variant: product.create() runs before product.deserialize(data)
create_products_create_first(st, nid, ctype, data) ==
    IF ~check_content_type(ctype, JSON_TYPE)
    THEN Result(st, nid, Abort(HTTP_415_UNSUPPORTED_MEDIA_TYPE, FALSE))
    ELSE IF ~Deserializes(data)
    THEN Result(st, nid, Abort(HTTP_400_BAD_REQUEST, TRUE))
    ELSE LET product == Deserialize(NewProduct, data)
             created == [product EXCEPT !.id = nid]
         IN Result(Create(st, nid, NewProduct), nid + 1,
                   Response(HTTP_201_CREATED, "object", <<Serialize(created)>>, "/", TRUE))

\* variant: the handler returns the product without product.create()
create_products_no_create(st, nid, ctype, data) ==
    IF ~check_content_type(ctype, JSON_TYPE)
    THEN Result(st, nid, Abort(HTTP_415_UNSUPPORTED_MEDIA_TYPE, FALSE))
    ELSE IF ~Deserializes(data)
    THEN Result(st, nid, Abort(HTTP_400_BAD_REQUEST, TRUE))
    ELSE LET product == Deserialize(NewProduct, data)
             created == [product EXCEPT !.id = nid]
         IN Result(st, nid + 1,
                   Response(HTTP_201_CREATED, "object", <<Serialize(created)>>, "/", TRUE))

\* variant: the handler numbers the product itself, by the row count
create_products_count_id(st, nid, ctype, data) ==
    IF ~check_content_type(ctype, JSON_TYPE)
    THEN Result(st, nid, Abort(HTTP_415_UNSUPPORTED_MEDIA_TYPE, FALSE))
    ELSE IF ~Deserializes(data)
    THEN Result(st, nid, Abort(HTTP_400_BAD_REQUEST, TRUE))
    ELSE LET product == Deserialize(NewProduct, data)
             created == [product EXCEPT !.id = Len(st) + 1]
         IN Result(Create(st, Len(st) + 1, product), nid + 1,
                   Response(HTTP_201_CREATED, "object", <<Serialize(created)>>, "/", TRUE))

\* variant: a body that fails to deserialize is answered 400 after the
\* half-filled product was saved
create_products_save_invalid(st, nid, ctype, data) ==
    IF ~check_content_type(ctype, JSON_TYPE)
    THEN Result(st, nid, Abort(HTTP_415_UNSUPPORTED_MEDIA_TYPE, FALSE))
    ELSE IF ~Deserializes(data)
    THEN Result(Create(st, nid, NewProduct), nid + 1, Abort(HTTP_400_BAD_REQUEST, TRUE))
    ELSE LET product == Deserialize(NewProduct, data)
             created == [product EXCEPT !.id = nid]
         IN Result(Create(st, nid, product), nid + 1,
                   Response(HTTP_201_CREATED, "object", <<Serialize(created)>>, "/", TRUE))

\* variant: a category that names no member is stored as given, a value
\* outside the enumeration, and returned as the text of the body
create_products_free_text(st, nid, ctype, data) ==
    IF ~check_content_type(ctype, JSON_TYPE)
    THEN Result(st, nid, Abort(HTTP_415_UNSUPPORTED_MEDIA_TYPE, FALSE))
    ELSE IF ~Deserializes(data)
    THEN Result(st, nid, Abort(HTTP_400_BAD_REQUEST, TRUE))
    ELSE LET product == Deserialize(NewProduct, data)
             created == [product EXCEPT !.id = nid]
             stored == IF IsCategoryName(data.category) THEN product
                       ELSE [product EXCEPT !.category = Len(CategoryNames) + 1]
         IN Result(Create(st, nid, stored), nid + 1,
                   Response(HTTP_201_CREATED, "object",
                            <<[Serialize(created) EXCEPT !.category = data.category]>>,
                            "/", TRUE))

\* POST /products
create_products(st, nid, ctype, data) ==
    IF ~check_content_type(ctype, JSON_TYPE)
    THEN Result(st, nid, Abort(HTTP_415_UNSUPPORTED_MEDIA_TYPE, FALSE))
    ELSE IF ~Deserializes(data)
    THEN Result(st, nid, Abort(HTTP_400_BAD_REQUEST, TRUE))
    ELSE LET product == Deserialize(NewProduct, data)
             created == [product EXCEPT !.id = nid]
         IN Result(Create(st, nid, product), nid + 1,
                   Response(HTTP_201_CREATED, "object", <<Serialize(created)>>, "/", TRUE))

\* variant: the handler looks up the row before the one asked for
get_products_off_by_one(st, nid, product_id) ==
    IF ~Found(st, product_id - 1)
    THEN Result(st, nid, Abort(HTTP_404_NOT_FOUND, FALSE))
    ELSE Result(st, nid, Response(HTTP_200_OK, "object",
                                  <<Serialize(Find(st, product_id - 1))>>, Absent, FALSE))

\* GET /products/<id>
get_products(st, nid, product_id) ==
    IF ~Found(st, product_id)
    THEN Result(st, nid, Abort(HTTP_404_NOT_FOUND, FALSE))
    ELSE Result(st, nid, Response(HTTP_200_OK, "object",
                                  <<Serialize(Find(st, product_id))>>, Absent, FALSE))

\* variant: the handler saves the body as a new row (create for update)
update_products_adds_row(st, nid, product_id, ctype, data) ==
    IF ~check_content_type(ctype, JSON_TYPE)
    THEN Result(st, nid, Abort(HTTP_415_UNSUPPORTED_MEDIA_TYPE, FALSE))
    ELSE IF ~Found(st, product_id)
    THEN Result(st, nid, Abort(HTTP_404_NOT_FOUND, FALSE))
    ELSE IF ~Deserializes(data)
    THEN Result(st, nid, Abort(HTTP_400_BAD_REQUEST, TRUE))
    ELSE LET product == Deserialize(Find(st, product_id), data)
         IN Result(Create(st, nid, product), nid + 1,
                   Response(HTTP_200_OK, "object", <<Serialize(product)>>, Absent, TRUE))

\* variant: a PUT of an unknown id inserts the product (upsert)
update_products_upsert(st, nid, product_id, ctype, data) ==
    IF ~check_content_type(ctype, JSON_TYPE)
    THEN Result(st, nid, Abort(HTTP_415_UNSUPPORTED_MEDIA_TYPE, FALSE))
    ELSE IF ~Deserializes(data)
    THEN Result(st, nid, Abort(HTTP_400_BAD_REQUEST, TRUE))
    ELSE IF ~Found(st, product_id)
    THEN LET product == Deserialize([NewProduct EXCEPT !.id = product_id], data)
         IN Result(Append(st, product), nid,
                   Response(HTTP_200_OK, "object", <<Serialize(product)>>, Absent, TRUE))
    ELSE LET product == Deserialize(Find(st, product_id), data)
         IN Result(Update(st, product), nid,
                   Response(HTTP_200_OK, "object", <<Serialize(product)>>, Absent, TRUE))

\* variant: a body that fails to deserialize is answered 400 after the
\* fields read so far were saved
update_products_saves_partial(st, nid, product_id, ctype, data) ==
    IF ~check_content_type(ctype, JSON_TYPE)
    THEN Result(st, nid, Abort(HTTP_415_UNSUPPORTED_MEDIA_TYPE, FALSE))
    ELSE IF ~Found(st, product_id)
    THEN Result(st, nid, Abort(HTTP_404_NOT_FOUND, FALSE))
    ELSE IF ~Deserializes(data)
    THEN LET partial == [Find(st, product_id) EXCEPT !.description = data.description]
         IN Result(Update(st, partial), nid, Abort(HTTP_400_BAD_REQUEST, TRUE))
    ELSE LET product == Deserialize(Find(st, product_id), data)
         IN Result(Update(st, product), nid,
                   Response(HTTP_200_OK, "object", <<Serialize(product)>>, Absent, TRUE))

\* the number a body's id token stands for
IdOfText(t) == CASE t = "0" -> 0 [] t = "2" -> 2

\* variant: the update takes the id of the body when it carries one
update_products_body_id(st, nid, product_id, ctype, data) ==
    IF ~check_content_type(ctype, JSON_TYPE)
    THEN Result(st, nid, Abort(HTTP_415_UNSUPPORTED_MEDIA_TYPE, FALSE))
    ELSE IF ~Found(st, product_id)
    THEN Result(st, nid, Abort(HTTP_404_NOT_FOUND, FALSE))
    ELSE IF ~Deserializes(data)
    THEN Result(st, nid, Abort(HTTP_400_BAD_REQUEST, TRUE))
    ELSE LET filled == Deserialize(Find(st, product_id), data)
             product == IF data.id = Absent THEN filled
                        ELSE [filled EXCEPT !.id = IdOfText(data.id)]
         IN Result(Update(st, product), nid,
                   Response(HTTP_200_OK, "object", <<Serialize(product)>>, Absent, TRUE))

\* variant: the handler looks the product up and reads the body before it
\* checks the content type
update_products_find_first(st, nid, product_id, ctype, data) ==
    IF ~Found(st, product_id)
    THEN Result(st, nid, Abort(HTTP_404_NOT_FOUND, FALSE))
    ELSE IF ~Deserializes(data)
    THEN Result(st, nid, Abort(HTTP_400_BAD_REQUEST, TRUE))
    ELSE IF ~check_content_type(ctype, JSON_TYPE)
    THEN Result(st, nid, Abort(HTTP_415_UNSUPPORTED_MEDIA_TYPE, TRUE))
    ELSE LET product == Deserialize(Find(st, product_id), data)
         IN Result(Update(st, product), nid,
                   Response(HTTP_200_OK, "object", <<Serialize(product)>>, Absent, TRUE))

\* PUT /products/<id>
update_products(st, nid, product_id, ctype, data) ==
    IF ~check_content_type(ctype, JSON_TYPE)
    THEN Result(st, nid, Abort(HTTP_415_UNSUPPORTED_MEDIA_TYPE, FALSE))
    ELSE IF ~Found(st, product_id)
    THEN Result(st, nid, Abort(HTTP_404_NOT_FOUND, FALSE))
    ELSE IF ~Deserializes(data)
    THEN Result(st, nid, Abort(HTTP_400_BAD_REQUEST, TRUE))
    ELSE LET product == Deserialize(Find(st, product_id), data)
         IN Result(Update(st, product), nid,
                   Response(HTTP_200_OK, "object", <<Serialize(product)>>, Absent, TRUE))

\* variant: the handler answers 204 without product.delete()
delete_products_no_delete(st, nid, product_id) ==
    IF ~Found(st, product_id)
    THEN Result(st, nid, Abort(HTTP_404_NOT_FOUND, FALSE))
    ELSE Result(st, nid, Response(HTTP_204_NO_CONTENT, "empty", <<>>, Absent, FALSE))

\* variant: the handler empties the table (a query delete without filter)
delete_products_all(st, nid, product_id) ==
    IF ~Found(st, product_id)
    THEN Result(st, nid, Abort(HTTP_404_NOT_FOUND, FALSE))
    ELSE Result(<<>>, nid, Response(HTTP_204_NO_CONTENT, "empty", <<>>, Absent, FALSE))

\* variant: the handler does not check that the product exists
delete_products_no_check(st, nid, product_id) ==
    Result(SelectSeq(st, LAMBDA r : r.id # product_id), nid,
           Response(HTTP_204_NO_CONTENT, "empty", <<>>, Absent, FALSE))

\* DELETE /products/<id>
delete_products(st, nid, product_id) ==
    IF ~Found(st, product_id)
    THEN Result(st, nid, Abort(HTTP_404_NOT_FOUND, FALSE))
    ELSE Result(Delete(st, Find(st, product_id)), nid,
                Response(HTTP_204_NO_CONTENT, "empty", <<>>, Absent, FALSE))

\* serialize every product of a query result, in order
SerializeAll(products) == [i \in 1..Len(products) |-> Serialize(products[i])]

\* variant: the name is looked up as given, without upper()
string_to_category_no_upper(name_string) ==
    IF IsCategoryName(name_string)
    THEN CategoryOf(name_string)
    ELSE CategoryOf(Upper("unknown"))

\* variant: the fallback takes the member after UNKNOWN
string_to_category_wrong_default(name_string) ==
    IF IsCategoryName(Upper(name_string))
    THEN CategoryOf(Upper(name_string))
    ELSE CategoryOf(Upper("unknown")) + 1

\* string_to_category(name): getattr(Category, name.upper()); the handler
\* catches the AttributeError and takes string_to_category("unknown")
string_to_category(name_string) ==
    IF IsCategoryName(Upper(name_string))
    THEN CategoryOf(Upper(name_string))
    ELSE CategoryOf(Upper("unknown"))

\* variant: a category that names no member drops the filter
list_query_bad_category_all(st, q) ==
    IF Truthy(q.category) /\ IsCategoryName(Upper(q.category))
    THEN find_by_category(st, string_to_category(q.category))
    ELSE IF Truthy(q.category)
    THEN All(st)
    ELSE IF Truthy(q.name)
    THEN find_by_name(st, q.name)
    ELSE IF Truthy(q.available)
    THEN find_by_availability(st, JsonTrue)
    ELSE All(st)

\* variant: the name filter is tried before the category filter
list_query_name_first(st, q) ==
    IF Truthy(q.name)
    THEN find_by_name(st, q.name)
    ELSE IF Truthy(q.category)
    THEN find_by_category(st, string_to_category(q.category))
    ELSE IF Truthy(q.available)
    THEN find_by_availability(st, JsonTrue)
    ELSE All(st)

\* variant: the availability filter is given the value of the parameter
list_query_available_value(st, q) ==
    IF Truthy(q.category)
    THEN find_by_category(st, string_to_category(q.category))
    ELSE IF Truthy(q.name)
    THEN find_by_name(st, q.name)
    ELSE IF Truthy(q.available)
    THEN find_by_availability(st, q.available)
    ELSE All(st)

\* variant: the name parameter is never read (a misspelt key)
list_query_no_name(st, q) ==
    IF Truthy(q.category)
    THEN find_by_category(st, string_to_category(q.category))
    ELSE IF Truthy(q.available)
    THEN find_by_availability(st, JsonTrue)
    ELSE All(st)

\* variant: without a parameter the handler lists the available products
list_query_default_available(st, q) ==
    IF Truthy(q.category)
    THEN find_by_category(st, string_to_category(q.category))
    ELSE IF Truthy(q.name)
    THEN find_by_name(st, q.name)
    ELSE find_by_availability(st, JsonTrue)

\* variant: the name parameter is tested for presence (is not None), not
\* for truth
list_query_name_present(st, q) ==
    IF Truthy(q.category)
    THEN find_by_category(st, string_to_category(q.category))
    ELSE IF q.name # Absent
    THEN find_by_name(st, q.name)
    ELSE IF Truthy(q.available)
    THEN find_by_availability(st, JsonTrue)
    ELSE All(st)

\* the query the handler runs: the first of category, name, available whose
\* value is truthy decides, else all()
list_query(st, q) ==
    IF Truthy(q.category)
    THEN find_by_category(st, string_to_category(q.category))
    ELSE IF Truthy(q.name)
    THEN find_by_name(st, q.name)
    ELSE IF Truthy(q.available)
    THEN find_by_availability(st, JsonTrue)
    ELSE All(st)

\* variant: a category that names no member is answered 400
list_all_products_rejects(st, nid, q) ==
    IF Truthy(q.category) /\ ~IsCategoryName(Upper(q.category))
    THEN Result(st, nid, Abort(HTTP_400_BAD_REQUEST, FALSE))
    ELSE Result(st, nid, Response(HTTP_200_OK, "array",
                                  SerializeAll(list_query(st, q)), Absent, FALSE))

\* GET /products
list_all_products(st, nid, q) ==
    Result(st, nid, Response(HTTP_200_OK, "array", SerializeAll(list_query(st, q)),
                             Absent, FALSE))

(***************************************************************************)
(* State.                                                                  *)
(*   store   the product table                                             *)
(*   nextId  the next value of the table's id sequence                     *)
(*   req     the last request: [op, id, ctype, body, q]                    *)
(*   resp    the response to it                                            *)
(*   before  the table as it was when the last request arrived             *)
(*   created the ids assigned by the successful creates, in order          *)
(*   deleted the ids removed by a successful DELETE                        *)
(***************************************************************************)
VARIABLES store, nextId, req, resp, before, created, deleted

vars == <<store, nextId, req, resp, before, created, deleted>>

\* ids a client puts in a path: 0 is never assigned
PathIds == 0..MaxCreates

Request(op, id, ctype, body) ==
    [op |-> op, id |-> id, ctype |-> ctype, body |-> body, q |-> NoQuery]

ListRequest(q) == [Request("LIST", 0, Absent, NoBody) EXCEPT !.q = q]

Init ==
    /\ store = <<>>
    /\ nextId = FirstId
    /\ req = Request("NONE", 0, Absent, NoBody)
    /\ resp = Response(0, "empty", <<>>, Absent, FALSE)
    /\ before = <<>>
    /\ created = <<>>
    /\ deleted = {}

\* the body as the handler sees it: read only after the content-type check
SentBodies(ctype) == IF ctype = JSON_TYPE THEN Bodies ELSE {NoBody}

Handle(r, rq) ==
    /\ store' = r.store
    /\ nextId' = r.nextId
    /\ resp' = r.resp
    /\ req' = rq
    /\ before' = store

\* jsonify then get_json: a serialized product as the body of a request
ToBody(message) == [message EXCEPT !.id = ToString(message.id)]

\* the bodies of a POST: those of SentBodies and, like the tests' clients,
\* the serialization of a product of the store
PostBodies(st, ctype) ==
    SentBodies(ctype) \cup
        IF ctype = JSON_TYPE
        THEN {ToBody(Serialize(st[i])) : i \in 1..Len(st)}
        ELSE {}

Post ==
    \E ctype \in ContentTypes : \E data \in PostBodies(store, ctype) :
        LET r == create_products(store, nextId, ctype, data)
        IN /\ Len(created) < MaxCreates
           /\ Handle(r, Request("POST", 0, ctype, data))
           /\ created' = IF r.resp.status = HTTP_201_CREATED
                         THEN Append(created, r.resp.items[1].id) ELSE created
           /\ UNCHANGED deleted

Get ==
    \E id \in PathIds :
        LET r == get_products(store, nextId, id)
        IN /\ Handle(r, Request("GET", id, Absent, NoBody))
           /\ UNCHANGED <<created, deleted>>

Put ==
    \E id \in PathIds : \E ctype \in ContentTypes : \E data \in SentBodies(ctype) :
        LET r == update_products(store, nextId, id, ctype, data)
        IN /\ Handle(r, Request("PUT", id, ctype, data))
           /\ UNCHANGED <<created, deleted>>

DeleteReq ==
    \E id \in PathIds :
        LET r == delete_products(store, nextId, id)
        IN /\ Handle(r, Request("DELETE", id, Absent, NoBody))
           /\ deleted' = IF r.resp.status = HTTP_204_NO_CONTENT
                         THEN deleted \cup {id} ELSE deleted
           /\ UNCHANGED created

List ==
    \E q \in QueryValues :
        LET r == list_all_products(store, nextId, q)
        IN /\ Handle(r, ListRequest(q))
           /\ UNCHANGED <<created, deleted>>

Next == Post \/ Get \/ Put \/ DeleteReq \/ List

Spec == Init /\ [][Next]_vars

(***************************************************************************)
(* Properties of the handlers.  In every state req is the last request,    *)
(* resp its response, before the table it found and store the table it     *)
(* left.                                                                   *)
(***************************************************************************)
IsPost == req.op = "POST"
IsGet == req.op = "GET"
IsPut == req.op = "PUT"
IsDelete == req.op = "DELETE"

\* the category name a product deserialized from a body is serialized with
NormalCategory(s) == IF IsCategoryName(s) THEN s ELSE CategoryName(UNKNOWN)

\* C1: a POST with Content-Type application/json and a body that
\* deserializes is answered 201 with a Location header and, as body, the
\* serialization of the created product: the request's name, description
\* and available flag, its price as a decimal value, its category name (the
\* name UNKNOWN for a string that names no member), and the assigned id;
\* the product is in the store afterwards and was not before.
C1_CreateReturnsProduct ==
    (IsPost /\ req.ctype = JSON_TYPE /\ Deserializes(req.body)) =>
        /\ resp.status = HTTP_201_CREATED
        /\ resp.kind = "object"
        /\ Len(resp.items) = 1
        /\ resp.location # Absent
        /\ LET body == resp.items[1]
           IN /\ Found(store, body.id)
              /\ ~Found(before, body.id)
              /\ Len(store) = Len(before) + 1
              /\ body = Serialize(Find(store, body.id))
              /\ body.name = req.body.name
              /\ body.description = req.body.description
              /\ IsDecimal(body.price)
              /\ ParsePrice(body.price) = ParsePrice(req.body.price)
              /\ body.available = req.body.available
              /\ body.category = NormalCategory(req.body.category)

C1_Witness ==
    /\ IsPost
    /\ resp.status = HTTP_201_CREATED
    /\ req.body.category = "TOOLS"
    /\ Len(before) >= 1

\* C2: the ids assigned by the successful creates of a run are pairwise
\* different, whatever updates and deletes happened in between, and the id of
\* a create is not the id of any product deleted before it.
C2_CreateIdsNeverReused ==
    /\ \A i, j \in 1..Len(created) : i # j => created[i] # created[j]
    /\ (IsPost /\ resp.status = HTTP_201_CREATED) =>
           /\ created[Len(created)] = resp.items[1].id
           /\ resp.items[1].id \notin deleted
    /\ deleted \subseteq {created[i] : i \in 1..Len(created)}

C2_Witness ==
    /\ IsPost
    /\ resp.status = HTTP_201_CREATED
    /\ Len(created) >= 2
    /\ deleted # {}

\* C3: a GET of an id is answered 200 with the serialization of the stored
\* product when the id is in the store and 404 when it is not; the GET that
\* follows the POST that created the id returns the body the POST returned.
C3_GetAnswer ==
    IsGet =>
        IF Found(store, req.id)
        THEN /\ resp.status = HTTP_200_OK
             /\ resp.kind = "object"
             /\ resp.items = <<Serialize(Find(store, req.id))>>
        ELSE /\ resp.status = HTTP_404_NOT_FOUND
             /\ resp.kind = "error"

C3_GetAfterPost ==
    (/\ IsPost
     /\ resp.status = HTTP_201_CREATED
     /\ req'.op = "GET"
     /\ req'.id = resp.items[1].id) =>
        /\ resp'.status = HTTP_200_OK
        /\ resp'.items = resp.items

C3_GetByIdExactlyWhenStored == []C3_GetAnswer /\ [][C3_GetAfterPost]_vars

C3_Witness ==
    /\ IsGet
    /\ resp.status = HTTP_200_OK
    /\ Len(store) >= 2
    /\ resp.items[1].name = "Pants"

\* C4: a POST whose Content-Type header is missing or is not exactly
\* application/json is answered 415, its body is never parsed, and the store
\* is left as it was.
C4_PostWrongContentType ==
    (IsPost /\ req.ctype # JSON_TYPE) =>
        /\ resp.status = HTTP_415_UNSUPPORTED_MEDIA_TYPE
        /\ ~resp.parsed
        /\ store = before

C4_Witness ==
    /\ IsPost
    /\ req.ctype = Absent
    /\ resp.status = HTTP_415_UNSUPPORTED_MEDIA_TYPE
    /\ Len(store) >= 1

\* C5: a POST with the JSON content type whose body has no name is answered
\* 400 and leaves the store exactly as it was.
C5_PostWithoutName ==
    (IsPost /\ req.ctype = JSON_TYPE /\ req.body.name = Absent) =>
        /\ resp.status = HTTP_400_BAD_REQUEST
        /\ store = before

C5_Witness ==
    /\ IsPost
    /\ req.ctype = JSON_TYPE
    /\ req.body.name = Absent
    /\ resp.status = HTTP_400_BAD_REQUEST
    /\ Len(store) >= 1

\* C6: a successful DELETE is answered 204 with an empty body and removes
\* the product; from then on the id is not in the store and every GET of it
\* is answered 404.
C6_DeletedStaysDeleted ==
    /\ \A id \in deleted : ~Found(store, id)
    /\ (IsGet /\ req.id \in deleted) => resp.status = HTTP_404_NOT_FOUND
    /\ (IsDelete /\ resp.status = HTTP_204_NO_CONTENT) =>
           /\ resp.kind = "empty"
           /\ resp.items = <<>>
           /\ req.id \in deleted

C6_Witness ==
    /\ IsGet
    /\ req.id \in deleted
    /\ Len(store) >= 1

\* C7: a successful DELETE removes only the product it names: every other
\* product of the store is still there with the same fields, and a GET of it
\* is answered 200 with its serialization.
C7_DeleteRemovesOnlyThat ==
    (IsDelete /\ resp.status = HTTP_204_NO_CONTENT) =>
        /\ store = SelectSeq(before, LAMBDA r : r.id # req.id)
        /\ \A i \in 1..Len(before) :
               before[i].id # req.id =>
                   /\ Found(store, before[i].id)
                   /\ Find(store, before[i].id) = before[i]
                   /\ get_products(store, nextId, before[i].id).resp.status = HTTP_200_OK
                   /\ get_products(store, nextId, before[i].id).resp.items
                          = <<Serialize(before[i])>>

C7_Witness ==
    /\ IsDelete
    /\ resp.status = HTTP_204_NO_CONTENT
    /\ Len(before) >= 2
    /\ Len(store) >= 1

\* C8: a DELETE of an id that is not in the store, never created or deleted
\* before, is answered 404 and leaves the store as it was; a DELETE of an id
\* that is in the store is answered 204.
C8_DeleteNotFound ==
    IsDelete =>
        IF Found(before, req.id)
        THEN resp.status = HTTP_204_NO_CONTENT
        ELSE /\ resp.status = HTTP_404_NOT_FOUND
             /\ store = before

C8_Witness ==
    /\ IsDelete
    /\ req.id \in deleted
    /\ resp.status = HTTP_404_NOT_FOUND
    /\ Len(store) >= 1

\* the last request is a successful PUT whose body differs from the stored
\* product in the description only
DescriptionOnlyUpdate ==
    /\ IsPut
    /\ resp.status = HTTP_200_OK
    /\ Found(before, req.id)
    /\ LET old == Find(before, req.id)
       IN /\ req.body.description # old.description
          /\ req.body.name = old.name
          /\ IsDecimal(req.body.price)
          /\ ParsePrice(req.body.price) = old.price
          /\ req.body.available = Serialize(old).available
          /\ req.body.category = CategoryName(old.category)

\* C9: after an update that changes only the description, find(id) returns
\* the new description with the id, name, price and category it had; the
\* store has as many rows as before and the other rows are unchanged.
C9_UpdateDescriptionOnly ==
    DescriptionOnlyUpdate =>
        /\ Found(store, req.id)
        /\ LET old == Find(before, req.id)
               new == Find(store, req.id)
           IN /\ new.description = req.body.description
              /\ new.id = old.id
              /\ new.name = old.name
              /\ new.price = old.price
              /\ new.category = old.category
        /\ Len(store) = Len(before)
        /\ Cardinality({i \in 1..Len(store) : store[i].id = req.id}) = 1
        /\ \A i \in 1..Len(before) : before[i].id # req.id => store[i] = before[i]

C9_Witness ==
    /\ DescriptionOnlyUpdate
    /\ Len(store) >= 2

\* C10: a PUT with the JSON content type for an id that is not in the store
\* is answered 404, whatever its body, and leaves the store as it was.
C10_PutNotFound ==
    (IsPut /\ req.ctype = JSON_TYPE /\ ~Found(before, req.id)) =>
        /\ resp.status = HTTP_404_NOT_FOUND
        /\ store = before

C10_Witness ==
    /\ IsPut
    /\ req.ctype = JSON_TYPE
    /\ Deserializes(req.body)
    /\ ~Found(before, req.id)
    /\ req.id \in deleted
    /\ Len(store) >= 1

IsList == req.op = "LIST"

\* the ids of a table, row by row
IdSeq(st) == [i \in 1..Len(st) |-> st[i].id]

\* C11: no two stored products have the same id, and a request other than a
\* successful create or delete leaves the id of every row as it was; a
\* successful PUT stores and returns the product under the id of the path,
\* also when its body carries another id.
C11_IdUniqueAndImmutable ==
    /\ \A i, j \in 1..Len(store) : i # j => store[i].id # store[j].id
    /\ (resp.status \notin {HTTP_201_CREATED, HTTP_204_NO_CONTENT}) =>
           IdSeq(store) = IdSeq(before)
    /\ (IsPut /\ resp.status = HTTP_200_OK) =>
           /\ resp.items[1].id = req.id
           /\ Found(store, req.id)
           /\ Serialize(Find(store, req.id)) = resp.items[1]

C11_Witness ==
    /\ IsPut
    /\ resp.status = HTTP_200_OK
    /\ req.body.id = "2"
    /\ req.id = 1
    /\ Found(store, 2)

\* items holds the serialization of every row of st that meets P, each once,
\* and nothing else
ExactlyTheRows(items, st, P(_)) ==
    /\ Len(items) = Cardinality({i \in 1..Len(st) : P(st[i])})
    /\ \A j \in 1..Len(items) :
           \E i \in 1..Len(st) : P(st[i]) /\ items[j] = Serialize(st[i])
    /\ \A i \in 1..Len(st) :
           P(st[i]) => \E j \in 1..Len(items) : items[j] = Serialize(st[i])

IsArrayOk == resp.status = HTTP_200_OK /\ resp.kind = "array"

\* C12 as stated: GET /products?name=n without a category parameter returns
\* 200 with exactly the stored products named n, for every value n.
C12_AsStated ==
    (IsList /\ req.q.category = Absent /\ req.q.name # Absent) =>
        /\ IsArrayOk
        /\ ExactlyTheRows(resp.items, store, LAMBDA r : r.name = req.q.name)

\* C12: GET /products?name=n with a non-empty n and no category parameter
\* returns 200 with exactly the stored products whose name equals n, an
\* empty array when there is none; the store is left as it was.
C12_ListByName ==
    (IsList /\ req.q.category = Absent /\ Truthy(req.q.name)) =>
        /\ IsArrayOk
        /\ ExactlyTheRows(resp.items, store, LAMBDA r : r.name = req.q.name)
        /\ store = before

C12_Witness ==
    /\ IsList
    /\ req.q.category = Absent
    /\ req.q.name = "Hat"
    /\ Len(resp.items) >= 1
    /\ Len(store) > Len(resp.items)

\* the category value v names the member c, letter case aside
NamesMember(v, c) == Truthy(v) /\ Upper(v) = CategoryName(c)

NamesNoMember(v) == \A c \in Category : ~NamesMember(v, c)

\* C13: GET /products with a category value that is the name of a member in
\* any letter case returns 200 with exactly the stored products of that
\* member, whatever the other parameters.
C13_ListByCategory ==
    IsList =>
        \A c \in Category :
            NamesMember(req.q.category, c) =>
                /\ IsArrayOk
                /\ ExactlyTheRows(resp.items, store, LAMBDA r : r.category = c)

C13_Witness ==
    /\ IsList
    /\ req.q.category = "Tools"
    /\ Len(resp.items) >= 1
    /\ Len(store) > Len(resp.items)

\* C14 as stated: every category value that names no member, the empty one
\* included, returns 200 with only the products whose category is UNKNOWN.
C14_AsStated ==
    (IsList /\ req.q.category # Absent /\ NamesNoMember(req.q.category)) =>
        /\ IsArrayOk
        /\ ExactlyTheRows(resp.items, store, LAMBDA r : r.category = UNKNOWN)

\* C14: GET /products with a non-empty category value that names no member
\* returns 200, never an error, with exactly the stored products whose
\* category is UNKNOWN.
C14_UnrecognizedCategory ==
    (IsList /\ Truthy(req.q.category) /\ NamesNoMember(req.q.category)) =>
        /\ IsArrayOk
        /\ ExactlyTheRows(resp.items, store, LAMBDA r : r.category = UNKNOWN)

C14_Witness ==
    /\ IsList
    /\ req.q.category = "bogus"
    /\ Len(resp.items) >= 1
    /\ Len(store) > Len(resp.items)

\* C18 as stated: a category value that names no member makes the filter
\* default to "all": the request returns every stored product.
C18_AsStated ==
    (IsList /\ Truthy(req.q.category) /\ NamesNoMember(req.q.category)) =>
        resp.items = SerializeAll(store)

\* C18: a category value that fails to parse makes the filter default to the
\* UNKNOWN category, not to "all": the answer is the answer to the same
\* request with category=unknown, and it holds every stored product only
\* when every stored product is UNKNOWN.
C18_BadCategoryDefault ==
    (IsList /\ Truthy(req.q.category) /\ NamesNoMember(req.q.category)) =>
        /\ resp = list_all_products(store, nextId,
                                    [req.q EXCEPT !.category = "unknown"]).resp
        /\ (resp.items = SerializeAll(store))
               <=> (\A i \in 1..Len(store) : store[i].category = UNKNOWN)
        /\ \A j \in 1..Len(resp.items) : resp.items[j].category = "UNKNOWN"

C18_Witness ==
    /\ IsList
    /\ req.q.category = "bogus"
    /\ req.q.name = Absent
    /\ Len(store) >= 2
    /\ Len(resp.items) = 0

\* the query with only the first of category, name, available that meets
\* Given, the other parameters taken out
OnlyFirst(q, Given(_)) ==
    IF Given(q.category) THEN [NoQuery EXCEPT !.category = q.category]
    ELSE IF Given(q.name) THEN [NoQuery EXCEPT !.name = q.name]
    ELSE IF Given(q.available) THEN [NoQuery EXCEPT !.available = q.available]
    ELSE NoQuery

\* the number of parameters of the query that meet Given
Count(q, Given(_)) ==
    Cardinality({k \in {"category", "name", "available"} : Given(q[k])})

InUrl(v) == v # Absent

\* C15 as stated: with several parameters in the URL the answer is the
\* answer to the request with only the first parameter that is in the URL,
\* in the order category, name, available.
C15_AsStated ==
    (IsList /\ Count(req.q, InUrl) >= 2) =>
        resp = list_all_products(store, nextId, OnlyFirst(req.q, InUrl)).resp

\* C15: with several parameters in the URL exactly one filter is applied:
\* the answer is the answer to the request with only the first parameter, in
\* the order category, name, available, whose value is not empty (to the
\* request without parameters when all are empty), and no other request
\* with that same first parameter is answered differently.
C15_FilterPriority ==
    (IsList /\ Count(req.q, InUrl) >= 2) =>
        /\ resp = list_all_products(store, nextId, OnlyFirst(req.q, Truthy)).resp
        /\ \A q2 \in QueryValues :
               OnlyFirst(q2, Truthy) = OnlyFirst(req.q, Truthy) =>
                   list_all_products(store, nextId, q2).resp = resp
        /\ Truthy(req.q.category) =>
               ExactlyTheRows(resp.items, store,
                              LAMBDA r : NamesMember(req.q.category, r.category)
                                         \/ (NamesNoMember(req.q.category)
                                             /\ r.category = UNKNOWN))
        /\ (~Truthy(req.q.category) /\ Truthy(req.q.name)) =>
               ExactlyTheRows(resp.items, store, LAMBDA r : r.name = req.q.name)

C15_Witness ==
    /\ IsList
    /\ req.q.category = "Tools"
    /\ req.q.name = "Hat"
    /\ req.q.available = "false"
    /\ Len(resp.items) >= 1
    /\ Len(find_by_name(store, "Hat")) > Len(resp.items)

\* C16 as stated: with available in the URL and category and name not, the
\* answer is exactly the stored products whose flag is true, whatever the
\* value of available.
C16_AsStated ==
    (/\ IsList
     /\ req.q.available # Absent
     /\ req.q.category = Absent
     /\ req.q.name = Absent) =>
        /\ IsArrayOk
        /\ ExactlyTheRows(resp.items, store, LAMBDA r : r.available)

\* C16: with a non-empty value of available in the URL, whatever it is, and
\* category and name not in the URL, the answer is exactly the stored
\* products whose available flag is true.
C16_AvailableFilter ==
    (/\ IsList
     /\ Truthy(req.q.available)
     /\ req.q.category = Absent
     /\ req.q.name = Absent) =>
        /\ IsArrayOk
        /\ ExactlyTheRows(resp.items, store, LAMBDA r : r.available)

C16_Witness ==
    /\ IsList
    /\ req.q.available = "false"
    /\ req.q.category = Absent
    /\ req.q.name = Absent
    /\ Len(resp.items) >= 1
    /\ Len(store) > Len(resp.items)

\* C17: GET /products never fails: for every table and every query the
\* answer is 200 with an array, each item the serialization of a stored
\* product and no product twice, and the table is left as it was.
C17_ListNeverFails ==
    IsList =>
        /\ IsArrayOk
        /\ \A j \in 1..Len(resp.items) :
               \E i \in 1..Len(store) : resp.items[j] = Serialize(store[i])
        /\ \A j, k \in 1..Len(resp.items) :
               j # k => resp.items[j].id # resp.items[k].id
        /\ store = before

C17_Witness ==
    /\ IsList
    /\ req.q.category = "bogus"
    /\ req.q.name = ""
    /\ req.q.available = "false"
    /\ Len(store) >= 1

IsFailure == resp.status \in {HTTP_415_UNSUPPORTED_MEDIA_TYPE,
                              HTTP_400_BAD_REQUEST, HTTP_404_NOT_FOUND}

\* C19: a request answered 415, 400 or 404 leaves the store as it was,
\* every product with the fields it had; a PUT of a stored product with a
\* body that fails to deserialize is answered 400, and a GET of that id then
\* returns the product as it was before the PUT.
C19_FailedRequestNoEffect ==
    /\ IsFailure => store = before
    /\ (/\ IsPut
        /\ req.ctype = JSON_TYPE
        /\ Found(before, req.id)
        /\ ~Deserializes(req.body)) =>
           /\ resp.status = HTTP_400_BAD_REQUEST
           /\ get_products(store, nextId, req.id).resp
                  = Response(HTTP_200_OK, "object",
                             <<Serialize(Find(before, req.id))>>, Absent, FALSE)

C19_Witness ==
    /\ IsPut
    /\ resp.status = HTTP_400_BAD_REQUEST
    /\ req.body.price = "abc"
    /\ Found(before, req.id)
    /\ Find(before, req.id).description # req.body.description
    /\ Len(store) >= 2

\* valid products: every category, both flags, the prices of the model
ValidProducts == [id : {FirstId}, name : {"Hat"}, description : {"d1"},
                  price : {ParsePrice("1.5"), ParsePrice("2.5")},
                  available : BOOLEAN, category : Category]

\* deserializing the serialization of p gives p back, the id aside
RoundTrips(p) ==
    /\ Deserializes(ToBody(Serialize(p)))
    /\ Deserialize(NewProduct, ToBody(Serialize(p))) = [p EXCEPT !.id = NoId]

\* C20: deserialize(serialize(P)) has the name, description, price,
\* available flag and category of P, for every valid P and every stored
\* product; a POST of serialize(P) for a stored P is answered 201 and creates
\* a product that differs from P in its id only, returned with the
\* serialized fields of P.
C20_SerializeRoundTrip ==
    /\ \A p \in ValidProducts : RoundTrips(p)
    /\ \A i \in 1..Len(store) : RoundTrips(store[i])
    /\ (IsPost /\ req.ctype = JSON_TYPE) =>
           \A i \in 1..Len(before) :
               req.body = ToBody(Serialize(before[i])) =>
                   /\ resp.status = HTTP_201_CREATED
                   /\ resp.items[1].id # before[i].id
                   /\ resp.items[1]
                          = [Serialize(before[i]) EXCEPT !.id = resp.items[1].id]
                   /\ Found(store, resp.items[1].id)
                   /\ Find(store, resp.items[1].id)
                          = [before[i] EXCEPT !.id = resp.items[1].id]

C20_Witness ==
    /\ IsPost
    /\ resp.status = HTTP_201_CREATED
    /\ Len(before) >= 1
    /\ req.body = ToBody(Serialize(before[1]))
    /\ before[1].category = UNKNOWN

\* the request carried a JSON body whose category string names no member
UnknownCategoryBody ==
    /\ req.ctype = JSON_TYPE
    /\ req.body.category \notin {Absent, NonString}
    /\ ~IsCategoryName(req.body.category)

\* C21: after any sequence of POST and PUT requests, whatever the category
\* strings of their bodies, the category of every stored product is one of
\* the six enumerated values; a POST or PUT whose body's category names none
\* of them either fails and leaves the store as it was, or stores and returns
\* a product whose category is an enumerated value, never the text of the
\* body.
C21_CategoryAlwaysEnumerated ==
    /\ \A i \in 1..Len(store) :
           /\ store[i].category \in Category
           /\ IsCategoryName(Serialize(store[i]).category)
    /\ ((IsPost \/ IsPut) /\ UnknownCategoryBody) =>
           \/ /\ IsFailure
              /\ store = before
           \/ /\ resp.status \in {HTTP_201_CREATED, HTTP_200_OK}
              /\ IsCategoryName(resp.items[1].category)
              /\ resp.items[1].category # req.body.category
              /\ Found(store, resp.items[1].id)
              /\ Find(store, resp.items[1].id).category \in Category
              /\ CategoryName(Find(store, resp.items[1].id).category)
                     # req.body.category

C21_Witness ==
    /\ IsPut
    /\ UnknownCategoryBody
    /\ resp.status = HTTP_200_OK
    /\ Find(before, req.id).category # UNKNOWN
    /\ Find(store, req.id).category \in Category
    /\ Len(store) >= 2
    /\ \E i \in 1..Len(store) : store[i].id # req.id /\ store[i].category # UNKNOWN

\* what GET /products without query parameters returns for the table st
ListAll(st) == list_all_products(st, nextId, NoQuery).resp.items

\* C22: GET /products without query parameters returns every stored product
\* exactly once: from the empty store, after any sequence of requests, the
\* returned array is the serialization of the rows, with pairwise distinct
\* ids, and its length is the number of successful POSTs minus the number of
\* successful DELETEs; a PUT and a failed request leave that length as it
\* was.
C22_ListAllCountsCreatesMinusDeletes ==
    /\ Len(ListAll(store)) = Len(created) - Cardinality(deleted)
    /\ (IsList /\ req.q = NoQuery) =>
           /\ IsArrayOk
           /\ resp.items = ListAll(store)
           /\ Len(resp.items) = Len(created) - Cardinality(deleted)
           /\ \A i \in 1..Len(store) :
                  Cardinality({j \in 1..Len(resp.items) :
                                   resp.items[j] = Serialize(store[i])}) = 1
           /\ \A i, j \in 1..Len(resp.items) :
                  resp.items[i].id = resp.items[j].id => i = j
    /\ (IsPut \/ IsFailure) => Len(ListAll(store)) = Len(ListAll(before))
    /\ (IsPost /\ resp.status = HTTP_201_CREATED) =>
           Len(ListAll(store)) = Len(ListAll(before)) + 1
    /\ (IsDelete /\ resp.status = HTTP_204_NO_CONTENT) =>
           Len(ListAll(store)) = Len(ListAll(before)) - 1

C22_Witness ==
    /\ IsList
    /\ req.q = NoQuery
    /\ Len(created) = MaxCreates
    /\ Cardinality(deleted) = 1
    /\ Len(resp.items) = MaxCreates - 1
    /\ ~store[1].available

\* C23: in PUT /products/{id} the content-type check comes before the
\* existence check and before the body is parsed: a PUT whose Content-Type
\* header is missing or is not application/json is answered 415, never 404
\* or 400, whether or not the id is in the store, without get_json() having
\* run, and the store is left unchanged; a PUT answered 404 or 400 carried
\* the right content type.
C23_PutContentTypeFirst ==
    /\ (IsPut /\ req.ctype # JSON_TYPE) =>
           /\ resp.status = HTTP_415_UNSUPPORTED_MEDIA_TYPE
           /\ ~resp.parsed
           /\ store = before
           /\ nextId = FirstId + Len(created)
    /\ (IsPut /\ resp.status \in {HTTP_404_NOT_FOUND, HTTP_400_BAD_REQUEST}) =>
           req.ctype = JSON_TYPE
    /\ (IsPut /\ resp.status = HTTP_400_BAD_REQUEST) => Found(before, req.id)

C23_Witness ==
    /\ IsPut
    /\ req.ctype = Absent
    /\ resp.status = HTTP_415_UNSUPPORTED_MEDIA_TYPE
    /\ ~Found(before, req.id)
    /\ Len(store) >= 1

\* a PUT with a wrong content type for an id of the store
C23_WitnessStored ==
    /\ IsPut
    /\ req.ctype = "text/plain"
    /\ resp.status = HTTP_415_UNSUPPORTED_MEDIA_TYPE
    /\ Found(before, req.id)

\* the query with every parameter of empty value taken out of the URL
WithoutEmpty(q) == [k \in DOMAIN q |-> IF q[k] = "" THEN Absent ELSE q[k]]

\* C24: in GET /products a query parameter given with an empty value is
\* treated as if it were absent: the response is the one to the same request
\* without the empty parameters; with an empty category and a non-empty name
\* the name filter is applied, with an empty category, an empty name and a
\* non-empty available the availability filter, and with an empty available
\* and no other parameter every product is returned, the unavailable ones
\* included.
C24_EmptyValueIsAbsent ==
    IsList =>
        /\ resp = list_all_products(before, nextId, WithoutEmpty(req.q)).resp
        /\ (req.q.category = "" /\ Truthy(req.q.name)) =>
               ExactlyTheRows(resp.items, store, LAMBDA r : r.name = req.q.name)
        /\ (req.q.category = "" /\ req.q.name = "" /\ Truthy(req.q.available)) =>
               ExactlyTheRows(resp.items, store, LAMBDA r : r.available)
        /\ (req.q.available = "" /\ req.q.category = Absent /\ req.q.name = Absent) =>
               resp.items = SerializeAll(store)
        /\ (\A k \in DOMAIN req.q : ~Truthy(req.q[k])) =>
               resp.items = SerializeAll(store)

C24_Witness ==
    /\ IsList
    /\ req.q.category = ""
    /\ req.q.name = ""
    /\ req.q.available = ""
    /\ Len(resp.items) = Len(store)
    /\ \E i \in 1..Len(store) : ~store[i].available
    /\ \E i \in 1..Len(store) : store[i].name # ""

\* an empty category falls through to the name filter, which selects
C24_WitnessFallThrough ==
    /\ IsList
    /\ req.q.category = ""
    /\ req.q.name = "Hat"
    /\ Len(resp.items) = 1
    /\ Len(store) = 2

====
